---- MODULE Spec2Model ----
(***************************************************************************)
(* Model of the mitfahrzentrale request broker (src/src/main.rs): the      *)
(* in-memory session table, the bearer/login/authorize helpers, the entry  *)
(* payload validation and the request handlers built on them.              *)
(*                                                                         *)
(* Strings are sequences of one-character strings, so that strip_prefix,   *)
(* trim, to_lowercase and contains are computed character by character.    *)
(* Time is an integer number of seconds since the process started.         *)
(***************************************************************************)
EXTENDS Integers, Sequences, FiniteSets, TLC

VARIABLES
    now,        \* the monotonic clock read by Instant::now() / elapsed()
    sessions,   \* AppState.sessions: token -> last activity (a map)
    lock,       \* holder of the RwLock write guard on sessions, or NoReq
    store,      \* table schueler: registered token -> user id
    entries,    \* table eintrag: the inserted rows, in insertion order
    req,        \* the in-flight / finished request of every connection
    started,    \* number of requests received so far
    loginAt,    \* history: token -> time of its last begin (login insert)
    expired,    \* history: tokens whose session expiry removed, no login since
    payload,    \* input of a stand-alone validate_entry_payload call
    verdict,    \* its result
    headers,    \* input of a stand-alone read_bearer_token call
    bearer      \* its result

vars == <<now, sessions, lock, store, entries, req, started, loginAt, expired,
          payload, verdict, headers, bearer>>

-----------------------------------------------------------------------------
(* Bounds of the model *)

\* the clock runs up to MaxPeriods idle limits (and one second) after the start
MaxPeriods == 1
\* requests received in one behaviour
MaxRequests == 3
\* rows the eintrag table can take
MaxEntries == 1
\* sitzplaetze ranges over -MaxSeats..MaxSeats in the stand-alone validation calls
MaxSeats == 1
\* a message is built from at most MaxParts fragments
MaxParts == 2
\* a header value is built from at most MaxHdrParts fragments
MaxHdrParts == 4

-----------------------------------------------------------------------------
(* Strings *)

NoValue == <<"<none>">>

Concat(ss) ==
    LET RECURSIVE Cat(_)
        Cat(i) == IF i > Len(ss) THEN <<>> ELSE ss[i] \o Cat(i + 1)
    IN Cat(1)

UpperChars == <<"A","B","C","D","E","F","G","H","I","J","K","L","M",
                "N","O","P","Q","R","S","T","U","V","W","X","Y","Z">>
LowerChars == <<"a","b","c","d","e","f","g","h","i","j","k","l","m",
                "n","o","p","q","r","s","t","u","v","w","x","y","z">>

\* char::to_lowercase on the characters of the model
char_to_lowercase(c) ==
    IF \E i \in 1..Len(UpperChars) : UpperChars[i] = c
    THEN LowerChars[CHOOSE i \in 1..Len(UpperChars) : UpperChars[i] = c]
    ELSE c

\* str::to_lowercase
to_lowercase(s) == [i \in 1..Len(s) |-> char_to_lowercase(s[i])]

\* str::contains(&str)
contains(s, pat) ==
    \E i \in 0..(Len(s) - Len(pat)) : SubSeq(s, i + 1, i + Len(pat)) = pat

\* char::is_whitespace on the characters of the model
WhiteSpace == {" ", "\t", "\n"}

\* str::trim: leading and trailing whitespace removed
trim(s) ==
    LET keep == {i \in 1..Len(s) : s[i] \notin WhiteSpace}
    IN IF keep = {} THEN <<>>
       ELSE SubSeq(s, CHOOSE i \in keep : \A j \in keep : i <= j,
                      CHOOSE i \in keep : \A j \in keep : i >= j)

\* str::strip_prefix: the rest after the prefix, or NoValue
strip_prefix(s, prefix) ==
    IF Len(s) >= Len(prefix) /\ SubSeq(s, 1, Len(prefix)) = prefix
    THEN SubSeq(s, Len(prefix) + 1, Len(s))
    ELSE NoValue

\* str::is_empty
is_empty(s) == Len(s) = 0

-----------------------------------------------------------------------------
(* Results: Result<_, (StatusCode, String)> *)

OK == 200
CREATED == 201
BAD_REQUEST == 400
UNAUTHORIZED == 401
INTERNAL_SERVER_ERROR == 500

Ok(status) == [ok |-> TRUE, status |-> status, reason |-> ""]
Err(status, reason) == [ok |-> FALSE, status |-> status, reason |-> reason]

-----------------------------------------------------------------------------
(* read_bearer_token *)

BearerPrefix == <<"B","e","a","r","e","r"," ">>

\* a byte outside visible ASCII, on which HeaderValue::to_str fails
OpaqueByte == "0x80"

\* HeaderMap::get(AUTHORIZATION).and_then(|v| v.to_str().ok())
header_to_str(h) ==
    IF h = NoValue THEN NoValue
    ELSE IF \E i \in 1..Len(h) : h[i] = OpaqueByte THEN NoValue
    ELSE h

\* faulty variant: the remainder is not trimmed before the emptiness test
read_bearer_token_untrimmed(h) ==
    LET auth == header_to_str(h) IN
    IF auth = NoValue
    THEN Err(UNAUTHORIZED, "Missing Authorization header") @@ [token |-> NoValue]
    ELSE LET rest == strip_prefix(auth, BearerPrefix) IN
         IF rest = NoValue
         THEN Err(UNAUTHORIZED, "Expected: Bearer <token>") @@ [token |-> NoValue]
         ELSE IF is_empty(rest)
              THEN Err(UNAUTHORIZED, "Empty token") @@ [token |-> NoValue]
              ELSE Ok(OK) @@ [token |-> rest]

read_bearer_token(h) ==
    LET auth == header_to_str(h) IN
    IF auth = NoValue
    THEN Err(UNAUTHORIZED, "Missing Authorization header") @@ [token |-> NoValue]
    ELSE LET rest == strip_prefix(auth, BearerPrefix) IN
         IF rest = NoValue
         THEN Err(UNAUTHORIZED, "Expected: Bearer <token>") @@ [token |-> NoValue]
         ELSE LET token == trim(rest) IN
              IF is_empty(token)
              THEN Err(UNAUTHORIZED, "Empty token") @@ [token |-> NoValue]
              ELSE Ok(OK) @@ [token |-> token]

-----------------------------------------------------------------------------
(* validate_entry_payload *)

Werbung == <<"w","e","r","b","u","n","g">>
Verkauf == <<"v","e","r","k","a","u","f">>

NewEntry(titel, nachricht, typ, sitzplaetze) ==
    [titel |-> titel, nachricht |-> nachricht, typ |-> typ, sitzplaetze |-> sitzplaetze]

\* faulty variant: the content filter looks at the message as written
validate_entry_payload_cased(p) ==
    LET msg == p.nachricht IN
    IF contains(msg, Werbung) \/ contains(msg, Verkauf)
    THEN Err(BAD_REQUEST, "Entry rejected: advertising/selling content")
    ELSE IF p.typ = "Angebot" /\ p.sitzplaetze <= 0
    THEN Err(BAD_REQUEST, "Typ 'Angebot' requires sitzplaetze > 0")
    ELSE IF p.typ \notin {"Angebot", "Anfrage"}
    THEN Err(BAD_REQUEST, "typ must be 'Angebot' or 'Anfrage'")
    ELSE IF is_empty(trim(p.titel))
    THEN Err(BAD_REQUEST, "titel must not be empty")
    ELSE IF is_empty(trim(p.nachricht))
    THEN Err(BAD_REQUEST, "nachricht must not be empty")
    ELSE Ok(OK)

\* faulty variant: the Anfrage arm applies the capacity rule of the Angebot arm
validate_entry_payload_seats(p) ==
    LET msg == to_lowercase(p.nachricht) IN
    IF contains(msg, Werbung) \/ contains(msg, Verkauf)
    THEN Err(BAD_REQUEST, "Entry rejected: advertising/selling content")
    ELSE IF p.typ \in {"Angebot", "Anfrage"} /\ p.sitzplaetze <= 0
    THEN Err(BAD_REQUEST, "Typ 'Angebot' requires sitzplaetze > 0")
    ELSE IF p.typ \notin {"Angebot", "Anfrage"}
    THEN Err(BAD_REQUEST, "typ must be 'Angebot' or 'Anfrage'")
    ELSE IF is_empty(trim(p.titel))
    THEN Err(BAD_REQUEST, "titel must not be empty")
    ELSE IF is_empty(trim(p.nachricht))
    THEN Err(BAD_REQUEST, "nachricht must not be empty")
    ELSE Ok(OK)

validate_entry_payload(p) ==
    LET msg == to_lowercase(p.nachricht) IN
    IF contains(msg, Werbung) \/ contains(msg, Verkauf)
    THEN Err(BAD_REQUEST, "Entry rejected: advertising/selling content")
    ELSE IF p.typ = "Angebot" /\ p.sitzplaetze <= 0
    THEN Err(BAD_REQUEST, "Typ 'Angebot' requires sitzplaetze > 0")
    ELSE IF p.typ \notin {"Angebot", "Anfrage"}
    THEN Err(BAD_REQUEST, "typ must be 'Angebot' or 'Anfrage'")
    ELSE IF is_empty(trim(p.titel))
    THEN Err(BAD_REQUEST, "titel must not be empty")
    ELSE IF is_empty(trim(p.nachricht))
    THEN Err(BAD_REQUEST, "nachricht must not be empty")
    ELSE Ok(OK)

-----------------------------------------------------------------------------
(* The state of the service *)

\* Duration::from_secs(10 * 60)
idle_limit == 10 * 60

\* the instants the clock is read at: the start, and each multiple of the idle
\* limit together with the second after it
TimePoints == {0} \cup {k * idle_limit + j : k \in 1..MaxPeriods, j \in 0..1}

TokA == <<"a","b","c">>
TokB == <<"x","y","z">>
Tokens == {TokA, TokB}

\* schueler.id of the user owning a token
UserId(t) == IF t = TokA THEN 1 ELSE 2

Reqs == {"r1", "r2"}
NoReq == "none"

\* the Authorization headers the requests of the service model carry
HeadersSent ==
    {NoValue} \cup {BearerPrefix \o t : t \in Tokens} \cup {BearerPrefix \o <<" ">> \o TokA}

GoodEntry == NewEntry(<<"M","i","t">>, <<"S","u","c","h","e">>, "Angebot", 3)
AdEntry == NewEntry(<<"M","i","t">>, <<"W","e","r","b","u","n","g">>, "Angebot", 3)
NoEntry == NewEntry(<<>>, <<>>, "", 0)
\* the bodies the POST /entries requests of the service model carry
PayloadsSent == {GoodEntry, AdEntry}

ProtectedReads == {"list_users", "get_entry_by_id", "get_entry_contact"}
Protected == ProtectedReads \cup {"create_entry"}

\* HashMap::contains_key / insert / remove on a map token -> value
contains_key(m, k) == k \in DOMAIN m
insert(m, k, v) == [x \in DOMAIN m \cup {k} |-> IF x = k THEN v ELSE m[x]]
remove(m, k) == [x \in DOMAIN m \ {k} |-> m[x]]
EmptyMap == [x \in {} |-> 0]

IdleReq ==
    [kind |-> "none", pc |-> "idle", token |-> NoValue, payload |-> NoEntry,
     user |-> 0, status |-> 0, reason |-> "",
     authCalls |-> 0, authed |-> FALSE, early |-> FALSE]

\* no request is in flight on connection r
Idle(r) == req[r].pc \in {"idle", "done", "panicked", "aborted"}

\* a request can be received on connection r: a new request takes r1 when it
\* is idle, and r2 only while r1 is busy
Free(r) ==
    /\ Idle(r)
    /\ started < MaxRequests
    /\ r = "r1" \/ ~Idle("r1")

Called(r, kind, token, p, pc) ==
    [IdleReq EXCEPT !.kind = kind, !.pc = pc, !.token = token, !.payload = p]

\* the handler returns res, the response of the request; its locals are dropped
Returned(q, res) ==
    [q EXCEPT !.pc = "done", !.status = res.status, !.reason = res.reason,
              !.payload = NoEntry, !.user = 0]

Init ==
    /\ now = 0
    /\ sessions = EmptyMap
    /\ lock = NoReq
    /\ store = [t \in Tokens |-> UserId(t)]
    /\ entries = <<>>
    /\ req = [r \in Reqs |-> IdleReq]
    /\ started = 0
    /\ loginAt = EmptyMap
    /\ expired = {}
    /\ payload = NoEntry
    /\ verdict = Ok(OK)
    /\ headers = NoValue
    /\ bearer = read_bearer_token(NoValue)

Pure == <<payload, verdict, headers, bearer>>

\* faulty variant: the sessions idle past the limit are swept as time passes
Tick_sweeps(t) ==
    /\ t > now
    /\ now' = t
    /\ sessions' = [x \in {k \in DOMAIN sessions : t - sessions[k] <= idle_limit} |-> sessions[x]]
    /\ UNCHANGED <<lock, store, entries, req, started, loginAt, expired, Pure>>

\* faulty variant: a clock that can be set back
Tick_wall_clock(t) ==
    /\ t # now
    /\ now' = t
    /\ UNCHANGED <<sessions, lock, store, entries, req, started, loginAt, expired, Pure>>

\* time passes
Tick(t) ==
    /\ t > now
    /\ now' = t
    /\ UNCHANGED <<sessions, lock, store, entries, req, started, loginAt, expired, Pure>>

\* a token is removed from the Credential Store (out of band)
Unregister(t) ==
    /\ contains_key(store, t)
    /\ store' = remove(store, t)
    /\ UNCHANGED <<now, sessions, lock, entries, req, started, loginAt, expired, Pure>>

-----------------------------------------------------------------------------
(* POST /login/{token}: login_with_token *)

\* the request arrives; the handler awaits token_exists
login_with_token_call(r, t) ==
    /\ Free(r)
    /\ req' = [req EXCEPT ![r] = Called(r, "login_with_token", t, NoEntry, "token_exists")]
    /\ started' = started + 1
    /\ UNCHANGED <<now, sessions, lock, store, entries, loginAt, expired, Pure>>

\* faulty variant: the session is started although the token does not exist
token_exists_starts_session(r, failed) ==
    /\ req[r].pc = "token_exists"
    /\ req' = [req EXCEPT ![r] =
          IF failed THEN Returned(@, Err(INTERNAL_SERVER_ERROR, "sqlx error"))
          ELSE IF ~contains_key(store, @.token)
               THEN Returned(@, Err(UNAUTHORIZED, "Invalid token"))
               ELSE [@ EXCEPT !.pc = "begin"]]
    /\ sessions' = IF ~failed /\ ~contains_key(store, req[r].token)
                   THEN insert(sessions, req[r].token, now)
                   ELSE sessions
    /\ UNCHANGED <<now, lock, store, entries, started, loginAt, expired, Pure>>

\* token_exists resolves: a store failure, or SELECT EXISTS(...) for the token
token_exists(r, failed) ==
    /\ req[r].pc = "token_exists"
    /\ req' = [req EXCEPT ![r] =
          IF failed THEN Returned(@, Err(INTERNAL_SERVER_ERROR, "sqlx error"))
          ELSE IF ~contains_key(store, @.token)
               THEN Returned(@, Err(UNAUTHORIZED, "Invalid token"))
               ELSE [@ EXCEPT !.pc = "begin"]]
    /\ UNCHANGED <<now, sessions, lock, store, entries, started, loginAt, expired, Pure>>

\* faulty variant: a session the token already has is kept as it is
login_with_token_insert_if_absent(r) ==
    /\ req[r].pc = "begin"
    /\ lock = NoReq
    /\ sessions' = IF contains_key(sessions, req[r].token) THEN sessions
                   ELSE insert(sessions, req[r].token, now)
    /\ loginAt' = insert(loginAt, req[r].token, now)
    /\ expired' = expired \ {req[r].token}
    /\ req' = [req EXCEPT ![r] = Returned(@, Ok(OK))]
    /\ UNCHANGED <<now, lock, store, entries, started, Pure>>

\* the write lock is acquired, the session inserted, the guard dropped
login_with_token_insert(r) ==
    /\ req[r].pc = "begin"
    /\ lock = NoReq
    /\ sessions' = insert(sessions, req[r].token, now)
    /\ loginAt' = insert(loginAt, req[r].token, now)
    /\ expired' = expired \ {req[r].token}
    /\ req' = [req EXCEPT ![r] = Returned(@, Ok(OK))]
    /\ UNCHANGED <<now, lock, store, entries, started, Pure>>

-----------------------------------------------------------------------------
(* require_logged_in_and_touch *)

\* the reasons require_logged_in_and_touch fails with
NotLoggedIn == "Not logged in. Call POST /login/{token}"
SessionExpired == "Session expired (idle > 10 min). Call POST /login/{token} again."

\* faulty variant: a session idle for exactly the limit counts as expired
is_idle_inclusive(last, t) == t - last >= idle_limit

\* last.elapsed() > idle_limit
is_idle(last, t) == t - last > idle_limit

\* what the handler does once require_logged_in_and_touch returned Ok, up to
\* its next await: create_entry validates the payload, the others go on to
\* their query
authorized(q) ==
    LET a == [q EXCEPT !.authed = TRUE] IN
    IF q.kind = "create_entry"
    THEN LET v == validate_entry_payload(q.payload) IN
         IF v.ok THEN [a EXCEPT !.pc = "query"] ELSE Returned(a, v)
    ELSE [a EXCEPT !.pc = "query"]

\* faulty variant: an idle session is reported as expired but not removed
require_logged_in_and_touch_no_remove(r) ==
    /\ req[r].pc = "authorize"
    /\ lock = NoReq
    /\ LET token == req[r].token
           q == [req[r] EXCEPT !.authCalls = @ + 1]
       IN IF ~contains_key(sessions, token)
          THEN /\ req' = [req EXCEPT ![r] = Returned(q,
                            Err(UNAUTHORIZED, "Not logged in. Call POST /login/{token}"))]
               /\ UNCHANGED <<sessions, lock, expired>>
          ELSE IF is_idle(sessions[token], now)
          THEN /\ expired' = expired \cup {token}
               /\ req' = [req EXCEPT ![r] = Returned(q,
                            Err(UNAUTHORIZED, "Session expired (idle > 10 min). Call POST /login/{token} again."))]
               /\ UNCHANGED <<sessions, lock>>
          ELSE /\ lock' = r
               /\ req' = [req EXCEPT ![r] = [q EXCEPT !.pc = "touch"]]
               /\ UNCHANGED <<sessions, expired>>
    /\ UNCHANGED <<now, store, entries, started, loginAt, Pure>>

\* faulty variant: a token without a session is touched like an active one
require_logged_in_and_touch_upsert(r) ==
    /\ req[r].pc = "authorize"
    /\ lock = NoReq
    /\ LET token == req[r].token
           q == [req[r] EXCEPT !.authCalls = @ + 1]
       IN IF contains_key(sessions, token) /\ is_idle(sessions[token], now)
          THEN /\ sessions' = remove(sessions, token)
               /\ expired' = expired \cup {token}
               /\ req' = [req EXCEPT ![r] = Returned(q,
                            Err(UNAUTHORIZED, "Session expired (idle > 10 min). Call POST /login/{token} again."))]
               /\ UNCHANGED lock
          ELSE /\ lock' = r
               /\ req' = [req EXCEPT ![r] = [q EXCEPT !.pc = "touch"]]
               /\ UNCHANGED <<sessions, expired>>
    /\ UNCHANGED <<now, store, entries, started, loginAt, Pure>>

\* faulty variant: an expiry drops every session that is idle past the limit
require_logged_in_and_touch_retain(r) ==
    /\ req[r].pc = "authorize"
    /\ lock = NoReq
    /\ LET token == req[r].token
           q == [req[r] EXCEPT !.authCalls = @ + 1]
       IN IF ~contains_key(sessions, token)
          THEN /\ req' = [req EXCEPT ![r] = Returned(q,
                            Err(UNAUTHORIZED, "Not logged in. Call POST /login/{token}"))]
               /\ UNCHANGED <<sessions, lock, expired>>
          ELSE IF is_idle(sessions[token], now)
          THEN /\ sessions' = [x \in {k \in DOMAIN sessions : ~is_idle(sessions[k], now)} |-> sessions[x]]
               /\ expired' = expired \cup {token}
               /\ req' = [req EXCEPT ![r] = Returned(q,
                            Err(UNAUTHORIZED, "Session expired (idle > 10 min). Call POST /login/{token} again."))]
               /\ UNCHANGED lock
          ELSE /\ lock' = r
               /\ req' = [req EXCEPT ![r] = [q EXCEPT !.pc = "touch"]]
               /\ UNCHANGED <<sessions, expired>>
    /\ UNCHANGED <<now, store, entries, started, loginAt, Pure>>

\* the write lock is acquired and the session looked up: absent, idle past the
\* limit (removed), or active (the guard is kept for the insert)
require_logged_in_and_touch(r) ==
    /\ req[r].pc = "authorize"
    /\ lock = NoReq
    /\ LET token == req[r].token
           q == [req[r] EXCEPT !.authCalls = @ + 1]
       IN IF ~contains_key(sessions, token)
          THEN /\ req' = [req EXCEPT ![r] = Returned(q,
                            Err(UNAUTHORIZED, "Not logged in. Call POST /login/{token}"))]
               /\ UNCHANGED <<sessions, lock, expired>>
          ELSE IF is_idle(sessions[token], now)
          THEN /\ sessions' = remove(sessions, token)
               /\ expired' = expired \cup {token}
               /\ req' = [req EXCEPT ![r] = Returned(q,
                            Err(UNAUTHORIZED, "Session expired (idle > 10 min). Call POST /login/{token} again."))]
               /\ UNCHANGED lock
          ELSE /\ lock' = r
               /\ req' = [req EXCEPT ![r] = [q EXCEPT !.pc = "touch"]]
               /\ UNCHANGED <<sessions, expired>>
    /\ UNCHANGED <<now, store, entries, started, loginAt, Pure>>

\* faulty variant: the session is refreshed only if the request goes on
touch_unless_rejected(r) ==
    /\ req[r].pc = "touch"
    /\ lock = r
    /\ sessions' = IF authorized(req[r]).pc = "done" THEN sessions
                   ELSE insert(sessions, req[r].token, now)
    /\ lock' = NoReq
    /\ req' = [req EXCEPT ![r] = authorized(@)]
    /\ UNCHANGED <<now, store, entries, started, loginAt, expired, Pure>>

\* sessions.insert(token, Instant::now()); the guard is dropped on return
touch(r) ==
    /\ req[r].pc = "touch"
    /\ lock = r
    /\ sessions' = insert(sessions, req[r].token, now)
    /\ lock' = NoReq
    /\ req' = [req EXCEPT ![r] = authorized(@)]
    /\ UNCHANGED <<now, store, entries, started, loginAt, expired, Pure>>

-----------------------------------------------------------------------------
(* The handlers behind the Auth Gate *)

\* GET /users, GET /entries/{id}, GET /entries/{id}/contact: the request
\* arrives, read_bearer_token runs, the handler awaits the write lock
protected_read_call(r, kind, h) ==
    /\ Free(r)
    /\ kind \in ProtectedReads
    /\ LET b == read_bearer_token(h) IN
       req' = [req EXCEPT ![r] =
          IF b.ok THEN Called(r, kind, b.token, NoEntry, "authorize")
          ELSE Returned(Called(r, kind, NoValue, NoEntry, "done"), b)]
    /\ started' = started + 1
    /\ UNCHANGED <<now, sessions, lock, store, entries, loginAt, expired, Pure>>

\* POST /entries: the request arrives, read_bearer_token runs, the handler
\* awaits get_user_by_token
create_entry_call(r, h, p) ==
    /\ Free(r)
    /\ LET b == read_bearer_token(h) IN
       req' = [req EXCEPT ![r] =
          IF b.ok THEN Called(r, "create_entry", b.token, p, "get_user_by_token")
          ELSE Returned(Called(r, "create_entry", NoValue, p, "done"), b)]
    /\ started' = started + 1
    /\ UNCHANGED <<now, sessions, lock, store, entries, loginAt, expired, Pure>>

\* get_user_by_token(token, &state.pool).await.unwrap(): the handler panics
\* on a store failure and on a token without a row
get_user_by_token(r, failed) ==
    /\ req[r].pc = "get_user_by_token"
    /\ req' = [req EXCEPT ![r] =
          IF failed
          THEN [@ EXCEPT !.pc = "panicked", !.reason = "sqlx error", !.early = TRUE, !.payload = NoEntry]
          ELSE IF ~contains_key(store, @.token)
          THEN [@ EXCEPT !.pc = "panicked", !.reason = "RowNotFound", !.early = TRUE, !.payload = NoEntry]
          ELSE [@ EXCEPT !.pc = "authorize", !.user = store[req[r].token], !.early = TRUE]]
    /\ UNCHANGED <<now, sessions, lock, store, entries, started, loginAt, expired, Pure>>

\* whether the row the query of a protected read looks for is there
row_found(kind, id) ==
    CASE kind = "list_users" -> TRUE
      [] kind = "get_entry_by_id" -> \E i \in 1..Len(entries) : entries[i].id = id
      [] kind = "get_entry_contact" ->
            \E i \in 1..Len(entries) :
                /\ entries[i].id = id
                /\ \E t \in DOMAIN store : store[t] = entries[i].schueler_id

\* the query of a protected read resolves
protected_read_query(r, id, failed) ==
    /\ req[r].pc = "query"
    /\ req[r].kind \in ProtectedReads
    /\ req' = [req EXCEPT ![r] =
          IF failed THEN Returned(@, Err(INTERNAL_SERVER_ERROR, "sqlx error"))
          ELSE IF ~row_found(@.kind, id)
          THEN Returned(@, Err(INTERNAL_SERVER_ERROR, "RowNotFound"))
          ELSE Returned(@, Ok(OK))]
    /\ UNCHANGED <<now, sessions, lock, store, entries, started, loginAt, expired, Pure>>

\* INSERT INTO eintrag ... RETURNING resolves
create_entry_insert(r, failed) ==
    /\ req[r].pc = "query"
    /\ req[r].kind = "create_entry"
    /\ IF failed
       THEN /\ req' = [req EXCEPT ![r] = Returned(@, Err(INTERNAL_SERVER_ERROR, "sqlx error"))]
            /\ UNCHANGED entries
       ELSE /\ Len(entries) < MaxEntries
            /\ entries' = Append(entries,
                  [id |-> Len(entries) + 1, titel |-> req[r].payload.titel,
                   nachricht |-> req[r].payload.nachricht, typ |-> req[r].payload.typ,
                   sitzplaetze |-> req[r].payload.sitzplaetze, schueler_id |-> req[r].user])
            /\ req' = [req EXCEPT ![r] = Returned(@, Ok(CREATED))]
    /\ UNCHANGED <<now, sessions, lock, store, started, loginAt, expired, Pure>>

-----------------------------------------------------------------------------
(* GET /entries: list_entries, not behind the Auth Gate *)

list_entries_call(r) ==
    /\ Free(r)
    /\ req' = [req EXCEPT ![r] = Called(r, "list_entries", NoValue, NoEntry, "get_all_entries")]
    /\ started' = started + 1
    /\ UNCHANGED <<now, sessions, lock, store, entries, loginAt, expired, Pure>>

get_all_entries(r, failed) ==
    /\ req[r].pc = "get_all_entries"
    /\ req' = [req EXCEPT ![r] =
          IF failed THEN Returned(@, Err(INTERNAL_SERVER_ERROR, "sqlx error"))
          ELSE Returned(@, Ok(OK))]
    /\ UNCHANGED <<now, sessions, lock, store, entries, started, loginAt, expired, Pure>>

-----------------------------------------------------------------------------
(* The service *)

Next ==
    \/ \E t \in TimePoints : Tick(t)
    \/ \E t \in Tokens : Unregister(t)
    \/ \E r \in Reqs, t \in Tokens : login_with_token_call(r, t)
    \/ \E r \in Reqs, failed \in BOOLEAN : token_exists(r, failed)
    \/ \E r \in Reqs : login_with_token_insert(r)
    \/ \E r \in Reqs, kind \in ProtectedReads, h \in HeadersSent : protected_read_call(r, kind, h)
    \/ \E r \in Reqs, h \in HeadersSent, p \in PayloadsSent : create_entry_call(r, h, p)
    \/ \E r \in Reqs, failed \in BOOLEAN : get_user_by_token(r, failed)
    \/ \E r \in Reqs : require_logged_in_and_touch(r)
    \/ \E r \in Reqs : touch(r)
    \/ \E r \in Reqs, id \in 1..(MaxEntries + 1), failed \in BOOLEAN : protected_read_query(r, id, failed)
    \/ \E r \in Reqs, failed \in BOOLEAN : create_entry_insert(r, failed)
    \/ \E r \in Reqs : list_entries_call(r)
    \/ \E r \in Reqs, failed \in BOOLEAN : get_all_entries(r, failed)

Spec == Init /\ [][Next]_vars

-----------------------------------------------------------------------------
(* The Session Table statement by statement: login_with_token and
   require_logged_in_and_touch with the write lock taken, the map read and
   the map written in steps of their own, and requests that their caller
   drops while they wait *)

\* the statements a request runs while it holds the write guard
Locked == {"locked_begin", "locked_get", "locked_remove", "locked_touch"}

\* the awaits of the handlers: a future can be dropped only there
Awaits == {"token_exists", "begin", "get_user_by_token", "authorize", "query", "get_all_entries"}

\* login_with_token: state.sessions.write().await resolves
login_sessions_write(r) ==
    /\ req[r].pc = "begin"
    /\ lock = NoReq
    /\ lock' = r
    /\ req' = [req EXCEPT ![r].pc = "locked_begin"]
    /\ UNCHANGED <<now, sessions, store, entries, started, loginAt, expired, Pure>>

\* login_with_token: sessions.insert(token, Instant::now()), end of the block
login_sessions_insert(r) ==
    /\ req[r].pc = "locked_begin"
    /\ sessions' = insert(sessions, req[r].token, now)
    /\ lock' = NoReq
    /\ loginAt' = insert(loginAt, req[r].token, now)
    /\ expired' = expired \ {req[r].token}
    /\ req' = [req EXCEPT ![r] = Returned(@, Ok(OK))]
    /\ UNCHANGED <<now, store, entries, started, Pure>>

\* faulty variant: the guard is handed out while another request holds it
sessions_write_shared(r) ==
    /\ req[r].pc = "authorize"
    /\ lock' = r
    /\ req' = [req EXCEPT ![r] = [@ EXCEPT !.pc = "locked_get", !.authCalls = @ + 1]]
    /\ UNCHANGED <<now, sessions, store, entries, started, loginAt, expired, Pure>>

\* require_logged_in_and_touch: state.sessions.write().await resolves
sessions_write(r) ==
    /\ req[r].pc = "authorize"
    /\ lock = NoReq
    /\ lock' = r
    /\ req' = [req EXCEPT ![r] = [@ EXCEPT !.pc = "locked_get", !.authCalls = @ + 1]]
    /\ UNCHANGED <<now, sessions, store, entries, started, loginAt, expired, Pure>>

\* sessions.get(token).copied().ok_or(..)? and last.elapsed() > idle_limit
sessions_get(r) ==
    /\ req[r].pc = "locked_get"
    /\ LET token == req[r].token IN
       IF ~contains_key(sessions, token)
       THEN /\ lock' = NoReq
            /\ req' = [req EXCEPT ![r] = Returned(@, Err(UNAUTHORIZED, NotLoggedIn))]
       ELSE /\ lock' = lock
            /\ req' = [req EXCEPT ![r].pc =
                  IF is_idle(sessions[token], now) THEN "locked_remove" ELSE "locked_touch"]
    /\ UNCHANGED <<now, sessions, store, entries, started, loginAt, expired, Pure>>

\* sessions.remove(token); return Err(..)
sessions_remove(r) ==
    /\ req[r].pc = "locked_remove"
    /\ sessions' = remove(sessions, req[r].token)
    /\ lock' = NoReq
    /\ expired' = expired \cup {req[r].token}
    /\ req' = [req EXCEPT ![r] = Returned(@, Err(UNAUTHORIZED, SessionExpired))]
    /\ UNCHANGED <<now, store, entries, started, loginAt, Pure>>

\* faulty variant: the instant a session already holds is kept
sessions_insert_or_keep(r) ==
    /\ req[r].pc = "locked_touch"
    /\ sessions' = IF contains_key(sessions, req[r].token) THEN sessions
                   ELSE insert(sessions, req[r].token, now)
    /\ lock' = NoReq
    /\ req' = [req EXCEPT ![r] = authorized(@)]
    /\ UNCHANGED <<now, store, entries, started, loginAt, expired, Pure>>

\* sessions.insert(token.to_string(), Instant::now()); Ok(())
sessions_insert(r) ==
    /\ req[r].pc = "locked_touch"
    /\ sessions' = insert(sessions, req[r].token, now)
    /\ lock' = NoReq
    /\ req' = [req EXCEPT ![r] = authorized(@)]
    /\ UNCHANGED <<now, store, entries, started, loginAt, expired, Pure>>

\* faulty variant: a request dropped while it holds the guard keeps the lock
Abort_keeps_guard(r) ==
    /\ req[r].pc \in Awaits \cup Locked
    /\ req' = [req EXCEPT ![r] = [@ EXCEPT !.pc = "aborted", !.payload = NoEntry, !.user = 0]]
    /\ UNCHANGED <<now, sessions, lock, store, entries, started, loginAt, expired, Pure>>

\* the caller drops the request (the connection closes): the handler's future
\* is dropped at the await it is suspended at
Abort(r) ==
    /\ req[r].pc \in Awaits
    /\ req' = [req EXCEPT ![r] = [@ EXCEPT !.pc = "aborted", !.payload = NoEntry, !.user = 0]]
    /\ UNCHANGED <<now, sessions, lock, store, entries, started, loginAt, expired, Pure>>

NextLock ==
    \/ \E t \in TimePoints : Tick(t)
    \/ \E r \in Reqs, t \in Tokens : login_with_token_call(r, t)
    \/ \E r \in Reqs, failed \in BOOLEAN : token_exists(r, failed)
    \/ \E r \in Reqs : login_sessions_write(r)
    \/ \E r \in Reqs : login_sessions_insert(r)
    \/ \E r \in Reqs, h \in HeadersSent : protected_read_call(r, "list_users", h)
    \/ \E r \in Reqs : sessions_write(r)
    \/ \E r \in Reqs : sessions_get(r)
    \/ \E r \in Reqs : sessions_remove(r)
    \/ \E r \in Reqs : sessions_insert(r)
    \/ \E r \in Reqs, failed \in BOOLEAN : protected_read_query(r, 1, failed)
    \/ \E r \in Reqs : Abort(r)

SpecLock == Init /\ [][NextLock]_vars

-----------------------------------------------------------------------------
(* validate_entry_payload called on its own, on every draft of a bounded set *)

SeqsUpTo(S, n) == UNION {[1..k -> S] : k \in 0..n}

TitleInputs == {<<>>, <<" ">>, <<"M">>, <<" ","M","\t">>}

MessageParts ==
    {<<" ">>, <<"x">>, Werbung, <<"W","E","R","B","U","N","G">>, <<"W","e","r">>,
     <<"b","u","n","G">>, Verkauf, <<"V","e","r","K","a","u","f">>}
MessageInputs == {Concat(parts) : parts \in SeqsUpTo(MessageParts, MaxParts)}

TypInputs == {"Angebot", "Anfrage", "Sonstiges", "angebot", ""}

PayloadInputs ==
    {NewEntry(t, m, y, n) :
        t \in TitleInputs, m \in MessageInputs, y \in TypInputs, n \in (0 - MaxSeats)..MaxSeats}

NotCalled == Err(0, "not called")

InitValidate ==
    /\ now = 0
    /\ sessions = EmptyMap
    /\ lock = NoReq
    /\ store = [t \in Tokens |-> UserId(t)]
    /\ entries = <<>>
    /\ req = [r \in Reqs |-> IdleReq]
    /\ started = 0
    /\ loginAt = EmptyMap
    /\ expired = {}
    /\ payload \in PayloadInputs
    /\ verdict = NotCalled
    /\ headers = NoValue
    /\ bearer = read_bearer_token(NoValue)

Validate ==
    /\ verdict = NotCalled
    /\ verdict' = validate_entry_payload(payload)
    /\ UNCHANGED <<now, sessions, lock, store, entries, req, started, loginAt, expired,
                   payload, headers, bearer>>

SpecValidate == InitValidate /\ [][Validate]_vars

-----------------------------------------------------------------------------
(* read_bearer_token called on its own, on every header of a bounded set *)

HeaderParts ==
    {<<"B","e","a","r","e","r">>, <<"b","e","a","r","e","r">>, <<" ">>, <<"\t">>,
     TokA, <<OpaqueByte>>}
\* no Authorization header, or one with a value
HeaderInputs == {NoValue} \cup {Concat(parts) : parts \in SeqsUpTo(HeaderParts, MaxHdrParts)}

NotRead == Err(0, "not called") @@ [token |-> NoValue]

InitBearer ==
    /\ now = 0
    /\ sessions = EmptyMap
    /\ lock = NoReq
    /\ store = [t \in Tokens |-> UserId(t)]
    /\ entries = <<>>
    /\ req = [r \in Reqs |-> IdleReq]
    /\ started = 0
    /\ loginAt = EmptyMap
    /\ expired = {}
    /\ payload = NoEntry
    /\ verdict = Ok(OK)
    /\ headers \in HeaderInputs
    /\ bearer = NotRead

ReadBearer ==
    /\ bearer = NotRead
    /\ bearer' = read_bearer_token(headers)
    /\ UNCHANGED <<now, sessions, lock, store, entries, req, started, loginAt, expired,
                   payload, verdict, headers>>

SpecBearer == InitBearer /\ [][ReadBearer]_vars

-----------------------------------------------------------------------------
(* Properties of validate_entry_payload (under SpecValidate) *)

\* c and d are the same letter, whatever their case
SameLetter(c, d) ==
    \/ c = d
    \/ \E k \in 1..Len(UpperChars) :
          {c, d} \subseteq {UpperChars[k], LowerChars[k]}

\* the word occurs in s, letter case ignored
OccursIgnoringCase(s, word) ==
    \E i \in 0..(Len(s) - Len(word)) :
        \A j \in 1..Len(word) : SameLetter(s[i + j], word[j])

Banned(p) ==
    OccursIgnoringCase(p.nachricht, Werbung) \/ OccursIgnoringCase(p.nachricht, Verkauf)

Blank(s) == \A i \in 1..Len(s) : s[i] \in WhiteSpace

TypeRuleBroken(p) ==
    \/ p.typ \notin {"Angebot", "Anfrage"}
    \/ p.typ = "Angebot" /\ p.sitzplaetze <= 0

\* C7: validate reports exactly the first violated rule in the order content
\* filter, type/capacity, empty title, empty message; a message holding a
\* banned word in any letter case gets the content-filter reason whatever the
\* type, the seats and the title are.
C7_FirstViolatedRule ==
    verdict # NotCalled =>
        /\ verdict.ok \/ verdict.status = BAD_REQUEST
        /\ Banned(payload) =>
              verdict.reason = "Entry rejected: advertising/selling content"
        /\ (~Banned(payload) /\ payload.typ \notin {"Angebot", "Anfrage"}) =>
              verdict.reason = "typ must be 'Angebot' or 'Anfrage'"
        /\ (~Banned(payload) /\ payload.typ = "Angebot" /\ payload.sitzplaetze <= 0) =>
              verdict.reason = "Typ 'Angebot' requires sitzplaetze > 0"
        /\ (~Banned(payload) /\ ~TypeRuleBroken(payload) /\ Blank(payload.titel)) =>
              verdict.reason = "titel must not be empty"
        /\ (~Banned(payload) /\ ~TypeRuleBroken(payload) /\ ~Blank(payload.titel)
               /\ Blank(payload.nachricht)) =>
              verdict.reason = "nachricht must not be empty"

\* a mixed-case banned word is rejected by the content filter although the
\* type is invalid, the seats are negative and the title is blank
C7_Witness ==
    /\ verdict.reason = "Entry rejected: advertising/selling content"
    /\ payload.nachricht = <<"W","e","r","b","u","n","G">>
    /\ payload.typ = "Sonstiges"
    /\ payload.sitzplaetze < 0
    /\ Blank(payload.titel)

\* C8: validate accepts a draft exactly when its message holds no banned word
\* (case ignored), its type is Angebot or Anfrage, Angebot comes with seats > 0,
\* and title and message are not blank; Anfrage is accepted with any seats, and
\* any other type (on a message passing the content filter) is rejected as an
\* invalid type for every seats value.
C8_AcceptedExactlyWhen ==
    verdict # NotCalled =>
        /\ verdict.ok <=>
              /\ ~Banned(payload)
              /\ payload.typ \in {"Angebot", "Anfrage"}
              /\ payload.typ = "Angebot" => payload.sitzplaetze > 0
              /\ ~Blank(payload.titel)
              /\ ~Blank(payload.nachricht)
        /\ (payload.typ = "Anfrage" /\ ~Banned(payload) /\ ~Blank(payload.titel)
               /\ ~Blank(payload.nachricht)) => verdict.ok
        /\ (payload.typ \notin {"Angebot", "Anfrage"} /\ ~Banned(payload)) =>
              /\ ~verdict.ok
              /\ verdict.reason = "typ must be 'Angebot' or 'Anfrage'"

\* an Anfrage without seats is accepted
C8_Witness ==
    /\ verdict.ok
    /\ verdict # NotCalled
    /\ payload.typ = "Anfrage"
    /\ payload.sitzplaetze <= 0

-----------------------------------------------------------------------------
(* Properties of read_bearer_token (under SpecBearer) *)

\* the header is there, is text, and starts with "Bearer "
HasBearerPrefix(h) ==
    /\ h # NoValue
    /\ \A i \in 1..Len(h) : h[i] # OpaqueByte
    /\ Len(h) >= Len(BearerPrefix)
    /\ \A i \in 1..Len(BearerPrefix) : h[i] = BearerPrefix[i]

\* t is s without the whitespace around it
Stripped(s, t) ==
    /\ t # <<>>
    /\ t[1] \notin WhiteSpace
    /\ t[Len(t)] \notin WhiteSpace
    /\ \E a \in 0..Len(s) :
          /\ a + Len(t) <= Len(s)
          /\ SubSeq(s, a + 1, a + Len(t)) = t
          /\ \A i \in 1..Len(s) : (i <= a \/ i > a + Len(t)) => s[i] \in WhiteSpace

\* C9 as stated: read_bearer_token succeeds only on a header that is "Bearer "
\* followed by a non-empty token, exactly one space between the two: a header
\* with more whitespace after "Bearer " fails.
C9_ExactlyOneSpace ==
    (bearer # NotRead /\ bearer.ok) =>
        /\ HasBearerPrefix(headers)
        /\ Len(headers) > Len(BearerPrefix)
        /\ headers[Len(BearerPrefix) + 1] \notin WhiteSpace

\* C9 as amended: read_bearer_token succeeds exactly when the header is there,
\* starts with the case-sensitive prefix "Bearer " and the rest is not blank;
\* the token is that rest without the whitespace around it, so further
\* whitespace before or after the token is accepted; every failure is 401.
C9_PrefixThenTrimmedToken ==
    bearer # NotRead =>
        /\ bearer.ok <=>
              /\ HasBearerPrefix(headers)
              /\ ~Blank(SubSeq(headers, Len(BearerPrefix) + 1, Len(headers)))
        /\ bearer.ok =>
              Stripped(SubSeq(headers, Len(BearerPrefix) + 1, Len(headers)), bearer.token)
        /\ ~bearer.ok => bearer.status = UNAUTHORIZED /\ bearer.token = NoValue

\* a header with two spaces after "Bearer" is accepted
C9_Witness ==
    /\ bearer.ok
    /\ bearer # NotRead
    /\ headers = BearerPrefix \o <<" ">> \o TokA
    /\ bearer.token = TokA

-----------------------------------------------------------------------------
(* Properties of the service (under Spec) *)


\* the step in which request r runs the lookup of require_logged_in_and_touch
Checks(r) == req[r].pc = "authorize" /\ req'[r].pc # "authorize"

\* the step in which request r ends
Ends(r) == ~Idle(r) /\ req'[r].pc \in {"done", "panicked"}

\* C1: after a login(T) that succeeded, an authorize(T) made while no more
\* than the idle limit has passed since that login succeeds, whatever requests
\* ran in between.
C1_LoginThenAuthorize ==
    [][\A r \in Reqs :
          /\ (/\ Checks(r)
              /\ contains_key(loginAt, req[r].token)
              /\ now - loginAt[req[r].token] <= idle_limit) => req'[r].pc = "touch"
          /\ (req[r].pc = "touch" /\ req'[r].pc # "touch") =>
                /\ req'[r].authed
                /\ contains_key(sessions', req[r].token)]_vars

\* a request passed the gate exactly one idle limit after the login of its token
C1_Witness ==
    \E r \in Reqs :
        /\ req[r].authed
        /\ contains_key(loginAt, req[r].token)
        /\ now - loginAt[req[r].token] = idle_limit
        /\ sessions[req[r].token] = now

\* C2: an authorize(T) that finds the last begin/touch of T more than the idle
\* limit back fails with Expired and removes the session of T; an authorize(T)
\* after that, with no login(T) in between, fails with NotFound.
C2_ExpiryThenNotFound ==
    [][\A r \in Reqs :
          Checks(r) =>
             /\ (/\ contains_key(sessions, req[r].token)
                 /\ now - sessions[req[r].token] > idle_limit) =>
                   /\ req'[r].pc = "done"
                   /\ req'[r].status = UNAUTHORIZED
                   /\ req'[r].reason = SessionExpired
                   /\ ~contains_key(sessions', req[r].token)
             /\ req[r].token \in expired =>
                   /\ req'[r].pc = "done"
                   /\ req'[r].status = UNAUTHORIZED
                   /\ req'[r].reason = NotLoggedIn
                   /\ ~contains_key(sessions', req[r].token)]_vars

\* after the expiry of its session, a request of the token was answered "not
\* logged in"
C2_Witness ==
    \E r \in Reqs :
        /\ req[r].pc = "done"
        /\ req[r].reason = NotLoggedIn
        /\ req[r].token \in expired
        /\ contains_key(loginAt, req[r].token)

\* C3: authorize(T) on a token without a session fails with NotFound and leaves
\* the session table as it is: it creates no session for T.
C3_NoSessionNotFound ==
    [][\A r \in Reqs :
          (Checks(r) /\ ~contains_key(sessions, req[r].token)) =>
             /\ req'[r].pc = "done"
             /\ req'[r].status = UNAUTHORIZED
             /\ req'[r].reason = NotLoggedIn
             /\ ~req'[r].authed
             /\ sessions' = sessions
             /\ lock' = lock]_vars

\* a request of a token that never logged in was answered "not logged in"
C3_Witness ==
    \E r \in Reqs :
        /\ req[r].pc = "done"
        /\ req[r].reason = NotLoggedIn
        /\ ~contains_key(loginAt, req[r].token)
        /\ ~contains_key(sessions, req[r].token)

\* C4: every protected operation calls authorize exactly once per request and
\* before any other work: it reads neither the Credential Store nor the Entry
\* Repository before its authorize has succeeded.
C4_AuthorizeBeforeWork ==
    \A r \in Reqs :
        req[r].kind \in Protected =>
           /\ ~req[r].early
           /\ req[r].authCalls <= 1
           /\ req[r].authed => req[r].authCalls = 1
           /\ req[r].pc = "query" => req[r].authed

\* C5: a protected request of a token holding an unexpired session passes the
\* Auth Gate whether or not the token is still in the Credential Store.
C5_GateIgnoresStore ==
    [][\A r \in Reqs :
          (/\ req[r].kind \in Protected
           /\ ~Idle(r)
           /\ ~req[r].authed
           /\ contains_key(sessions, req[r].token)
           /\ ~is_idle(sessions[req[r].token], now)) =>
             /\ ~(req'[r].pc = "panicked" /\ req'[r].reason = "RowNotFound")
             /\ Checks(r) => req'[r].pc = "touch"]_vars

\* C6: an entry is inserted only by a POST /entries request that passed
\* authorize and validation; a request whose session is missing or idle past
\* the limit gets 401, one whose payload is rejected gets 400, and neither
\* creates an entry.
C6_InsertOnlyWhenAdmitted ==
    [][/\ entries' # entries =>
             \E r \in Reqs :
                /\ req[r].kind = "create_entry"
                /\ req[r].pc = "query"
                /\ req[r].authed
                /\ validate_entry_payload(req[r].payload).ok
                /\ req'[r].status = CREATED
       /\ \A r \in Reqs :
             (req[r].kind = "create_entry" /\ Ends(r)) =>
                /\ (/\ ~req[r].authed
                    /\ req[r].pc # "touch"
                    /\ \/ ~contains_key(sessions, req[r].token)
                       \/ is_idle(sessions[req[r].token], now)) =>
                      /\ req'[r].pc = "done"
                      /\ req'[r].status = UNAUTHORIZED
                      /\ entries' = entries
                /\ (req[r].pc = "touch" /\ ~validate_entry_payload(req[r].payload).ok) =>
                      /\ req'[r].pc = "done"
                      /\ req'[r].status = BAD_REQUEST
                      /\ entries' = entries]_vars

\* C10: login(T) starts the session only when the Credential Store reported
\* that T exists; a failed store query gives 500, a token that does not exist
\* 401 "Invalid token", and in both cases the session table stays as it was.
C10_LoginChecksStoreFirst ==
    [][\A r \in Reqs :
          /\ (req[r].pc = "token_exists" /\ req'[r].pc # "token_exists") =>
                /\ req'[r].pc = "begin" => contains_key(store, req[r].token)
                /\ req'[r].pc # "begin" =>
                      /\ req'[r].pc = "done"
                      /\ \/ req'[r].status = INTERNAL_SERVER_ERROR
                         \/ /\ req'[r].status = UNAUTHORIZED
                            /\ req'[r].reason = "Invalid token"
                            /\ ~contains_key(store, req[r].token)
          /\ (/\ req'[r] # req[r]
              /\ req'[r].kind = "login_with_token"
              /\ req[r].pc # "begin") => sessions' = sessions
          /\ (req[r].pc = "begin" /\ req'[r].pc # "begin") =>
                /\ req'[r].status = OK
                /\ sessions' = insert(sessions, req[r].token, now)]_vars

\* a login was refused for a token that is gone from the store, and the session
\* the token held from an earlier login is still there
C10_Witness ==
    \E r \in Reqs :
        /\ req[r].kind = "login_with_token"
        /\ req[r].pc = "done"
        /\ req[r].status = UNAUTHORIZED
        /\ contains_key(sessions, req[r].token)

\* C11: every request ends with a response, and a failing one with a status and
\* reason of the error taxonomy: a protected request whose token has no session
\* gets 401 "Not logged in", one whose session expired 401 "Session expired",
\* and a failure of the Credential Store or the Entry Repository 500.
C11_EveryFailureAnswered ==
    \A r \in Reqs :
        /\ req[r].pc # "panicked"
        /\ req[r].pc = "done" =>
              /\ req[r].status \in {OK, CREATED, BAD_REQUEST, UNAUTHORIZED, INTERNAL_SERVER_ERROR}
              /\ req[r].status \notin {OK, CREATED} => req[r].reason # ""
              /\ req[r].reason \in {"sqlx error", "RowNotFound"} =>
                    req[r].status = INTERNAL_SERVER_ERROR
              /\ req[r].reason \in {NotLoggedIn, SessionExpired} =>
                    req[r].status = UNAUTHORIZED

-----------------------------------------------------------------------------
(* Properties of the Session Table under concurrent requests (under SpecLock) *)

\* C12: begin and touch_if_active each run as one step under the lock of the
\* Session Table: a request between taking the guard and dropping it is the
\* only one there, the entry it is about to remove is still the idle one it
\* read (no login or touch of the token wrote it in between), the entry it is
\* about to overwrite is still there, and of two requests of one token never
\* one is past "not yet expired" while the other is about to remove.
C12_LockedStepsAtomic ==
    /\ \A r \in Reqs :
          /\ req[r].pc \in Locked => lock = r
          /\ req[r].pc = "locked_remove" =>
                /\ contains_key(sessions, req[r].token)
                /\ is_idle(sessions[req[r].token], now)
          /\ req[r].pc = "locked_touch" => contains_key(sessions, req[r].token)
    /\ \A r1, r2 \in Reqs :
          r1 # r2 => ~(req[r1].pc \in Locked /\ req[r2].pc \in Locked)

\* a login of the token waits for the lock while a request that found the
\* session of the same token idle is about to remove it
C12_Witness ==
    \E r1, r2 \in Reqs :
        /\ req[r1].pc = "locked_remove"
        /\ req[r2].pc = "begin"
        /\ req[r1].token = req[r2].token

\* C13: for every token, as long as its session exists, the instant the
\* Session Table holds for it never goes back: no step replaces it by an
\* earlier one, whatever the order the logins and touches of the token take
\* the lock in.
C13_LastActivityNeverGoesBack ==
    [][\A t \in Tokens :
          (contains_key(sessions, t) /\ contains_key(sessions', t)) =>
              sessions'[t] >= sessions[t]]_vars

\* a session that a touch or a second login moved to a later instant than the
\* first login of its token wrote
C13_Witness ==
    \E t \in Tokens, r \in Reqs :
        /\ contains_key(sessions, t)
        /\ sessions[t] > 0
        /\ req[r].token = t
        /\ req[r].authed
        /\ \E r2 \in Reqs : r2 # r /\ req[r2].token = t /\ req[r2].pc = "locked_begin"

\* C14: of the requests of one token that run authorize at the same time,
\* every one whose lookup finds the session within the idle window succeeds,
\* whichever of them took the lock first; each writes the instant of its own
\* touch, so the session holds the instant of the last one that held the lock,
\* and a request of the token still waiting for the lock finds the session
\* within the window.
C14_ConcurrentTouchesAllSucceed ==
    [][\A r \in Reqs :
          LET token == req[r].token IN
          /\ (/\ req[r].pc = "locked_get"
              /\ req'[r].pc # "locked_get"
              /\ contains_key(sessions, token)
              /\ now - sessions[token] <= idle_limit) =>
                /\ req'[r].pc = "locked_touch"
                /\ sessions' = sessions
          /\ (req[r].pc = "locked_touch" /\ req'[r].pc # "locked_touch") =>
                /\ req'[r].authed
                /\ req'[r].pc = "query"
                /\ lock' = NoReq
                /\ contains_key(sessions', token)
                /\ sessions'[token] = now
                /\ \A r2 \in Reqs :
                      (r2 # r /\ req[r2].pc = "authorize" /\ req[r2].token = token) =>
                          ~is_idle(sessions'[token], now')]_vars

\* two requests of one token in flight together: one passed the gate exactly
\* at the end of the idle window, the other passed its lookup after it
C14_Witness ==
    \E r1, r2 \in Reqs :
        /\ r1 # r2
        /\ req[r1].token = req[r2].token
        /\ req[r1].authed
        /\ req[r1].pc = "query"
        /\ req[r2].pc = "locked_touch"
        /\ contains_key(loginAt, req[r1].token)
        /\ sessions[req[r1].token] = loginAt[req[r1].token] + idle_limit

\* C15: a request its caller drops leaves the Session Table as the step before
\* left it: dropped while it waits for the lock (or before), the table is as
\* it was; dropped after its login insert or touch, the table keeps what that
\* wrote. The drop changes neither the table nor the lock, a dropped request
\* never holds the lock, and the lock is held only by a request that is
\* running the statements between taking the guard and dropping it.
C15_AbortLeavesTableWhole ==
    [][/\ \A r \in Reqs :
             (req[r].pc # "aborted" /\ req'[r].pc = "aborted") =>
                /\ sessions' = sessions
                /\ lock' = lock
                /\ lock # r
                /\ req[r].pc \in {"token_exists", "begin", "authorize"} => ~req[r].authed
                /\ (req[r].pc = "query" /\ req[r].kind \in Protected) => req[r].authed
       /\ \A r \in Reqs : req'[r].pc = "aborted" => lock' # r
       /\ lock' # NoReq => req'[lock'].pc \in Locked]_vars

\* a protected read dropped while it waited for the lock, which the other
\* request holds
C15_Witness ==
    \E r, r2 \in Reqs :
        /\ req[r].pc = "aborted"
        /\ req[r].kind = "list_users"
        /\ req[r].authCalls = 0
        /\ req[r2].pc \in Locked
        /\ lock = r2

\* C16: the lookup of a token that has a session ends in Expired, with the
\* entry removed, exactly when now - last_activity is more than the idle limit
\* (exactly the limit is not expired); otherwise the request passes and its
\* touch sets last_activity to now. So a session touched at intervals of no
\* more than the limit is still there, however long ago its login was.
C16_ExpiredExactlyPastLimit ==
    [][\A r \in Reqs :
          LET token == req[r].token IN
          /\ (/\ req[r].pc = "locked_get"
              /\ req'[r].pc # "locked_get"
              /\ contains_key(sessions, token)) =>
                /\ req'[r].pc = "locked_remove" <=> now - sessions[token] > idle_limit
                /\ req'[r].pc = "locked_touch" <=> now - sessions[token] <= idle_limit
          /\ (req[r].pc = "locked_remove" /\ req'[r].pc # "locked_remove") =>
                /\ req'[r].pc = "done"
                /\ req'[r].status = UNAUTHORIZED
                /\ req'[r].reason = SessionExpired
                /\ ~req'[r].authed
                /\ ~contains_key(sessions', token)
          /\ (req[r].pc = "locked_touch" /\ req'[r].pc # "locked_touch") =>
                /\ req'[r].authed
                /\ sessions' = insert(sessions, token, now)]_vars

\* a request passed the gate more than the idle limit after the login of its
\* token, the session having been touched in between
C16_Witness ==
    \E r \in Reqs :
        /\ req[r].authed
        /\ contains_key(loginAt, req[r].token)
        /\ now - loginAt[req[r].token] > idle_limit
        /\ contains_key(sessions, req[r].token)
        /\ sessions[req[r].token] = now

-----------------------------------------------------------------------------
(* Properties of the Session Table across all handlers (under Spec) *)

\* C17: expiry is lazy. An entry leaves the Session Table only in the lookup of
\* a protected request of the same token that finds the entry idle past the
\* limit; no step of another request and no passing of time removes an entry,
\* so a session nobody checks stays in the table however long it is idle.
C17_OnlyOwnLookupRemoves ==
    [][/\ \A t \in Tokens :
             (contains_key(sessions, t) /\ ~contains_key(sessions', t)) =>
                 \E r \in Reqs :
                     /\ Checks(r)
                     /\ req[r].kind \in Protected
                     /\ req[r].token = t
                     /\ now - sessions[t] > idle_limit
                     /\ req'[r].reason = SessionExpired
       /\ now' # now => sessions' = sessions]_vars

\* a session idle past the limit that is still in the table
C17_Witness ==
    \E t \in Tokens :
        /\ contains_key(sessions, t)
        /\ now - sessions[t] > idle_limit
        /\ \A r \in Reqs : Idle(r)

\* C18: a token gets an entry in the Session Table only in the insert of a
\* login request of that token, which the request reaches after the Credential
\* Store reported the token as existing; the lookup and touch of the Auth Gate
\* and the other handlers add no key. So every key of the table is a token
\* that passed the check of a login.
C18_KeysPassedLogin ==
    [][/\ \A t \in Tokens :
             (~contains_key(sessions, t) /\ contains_key(sessions', t)) =>
                 \E r \in Reqs :
                     /\ req[r].kind = "login_with_token"
                     /\ req[r].pc = "begin"
                     /\ req[r].token = t
                     /\ req'[r].pc = "done"
                     /\ req'[r].status = OK
       /\ \A r \in Reqs :
             (req[r].pc = "token_exists" /\ req'[r].pc = "begin") =>
                 contains_key(store, req[r].token)
       /\ DOMAIN sessions' \subseteq DOMAIN loginAt']_vars

\* the table holds the session of a token that passed its login and is no
\* longer in the Credential Store, and a protected request of it passed
C18_Witness ==
    \E r \in Reqs :
        /\ req[r].authed
        /\ contains_key(sessions, req[r].token)
        /\ contains_key(loginAt, req[r].token)
        /\ ~contains_key(store, req[r].token)

\* C19: a step of a request of token T, whether the request succeeds or fails,
\* leaves the entry of every other token as it is: present or absent as
\* before, and with the same last_activity. The expiry of the session of T
\* neither removes nor refreshes the session of another token.
C19_OtherTokensUntouched ==
    [][\A r \in Reqs :
          req'[r] # req[r] =>
             \A t \in Tokens :
                 t # req'[r].token =>
                    /\ contains_key(sessions', t) <=> contains_key(sessions, t)
                    /\ contains_key(sessions, t) => sessions'[t] = sessions[t]]_vars

\* the session of a token expired and was removed, and the session of the
\* other token, idle just as long, is still in the table with its instant
C19_Witness ==
    \E r \in Reqs, t \in Tokens :
        /\ req[r].pc = "done"
        /\ req[r].reason = SessionExpired
        /\ ~contains_key(sessions, req[r].token)
        /\ t # req[r].token
        /\ contains_key(sessions, t)
        /\ is_idle(sessions[t], now)

\* C20: the refresh of a successful authorize(T) stays when the request fails
\* afterwards. The touch writes now for T whether the handler then goes on or
\* rejects the payload with 400, and the step in which a request that passed
\* the gate ends with 400 or 500 changes nothing else in the Session Table,
\* so the session of T holds the instant of that authorize.
C20_RefreshSurvivesFailure ==
    [][\A r \in Reqs :
          /\ (req[r].pc = "touch" /\ req'[r].pc # "touch") =>
                /\ sessions' = insert(sessions, req[r].token, now)
                /\ req'[r].pc = "done" =>
                      /\ req'[r].status = BAD_REQUEST
                      /\ req'[r].authed
          /\ (/\ req[r].authed
              /\ Ends(r)
              /\ req'[r].status \in {BAD_REQUEST, INTERNAL_SERVER_ERROR}) =>
                sessions' = sessions]_vars

\* a POST /entries that passed the gate at the end of the idle window and was
\* rejected by validation: the session holds the instant of that request
C20_Witness ==
    \E r \in Reqs :
        /\ req[r].kind = "create_entry"
        /\ req[r].pc = "done"
        /\ req[r].authed
        /\ req[r].status = BAD_REQUEST
        /\ contains_key(loginAt, req[r].token)
        /\ contains_key(sessions, req[r].token)
        /\ sessions[req[r].token] = loginAt[req[r].token] + idle_limit
        /\ sessions[req[r].token] = now

====
